---- MODULE Spec2Model ----
(***************************************************************************)
(* Model of pp-drug-search: the ICD-10 matching engine                     *)
(* (app/services/icd10_mapper.py), the DailyMed section extractor          *)
(* (app/extractor/dailymed_extractor.py) and the indication-mapping        *)
(* endpoint (app/api/routes.py).                                           *)
(*                                                                         *)
(* Texts are sequences of word tokens.  Similarity scores, which the code  *)
(* holds as floats in [0,1], are fixed-point integers in 0..ScoreUnit.     *)
(***************************************************************************)
EXTENDS Integers, Sequences, FiniteSets, TLC

VARIABLES
    icd10_df,             \* ICD10Mapper.icd10_df: the catalog rows
    vectorizer,           \* ICD10Mapper.vectorizer: fitted vocabulary and idf
    description_vectors,  \* ICD10Mapper.description_vectors
    synonym_lookup,       \* ICD10Mapper.synonym_lookup
    hashSeed,             \* string hash seed of the running process
    call,                 \* the last call and what it handed back
    repeat,               \* what the same call handed back when made again
    extraction,           \* the last extractor call and what it handed back
    mapper,               \* the process's reference to its ICD10Mapper
    constructions,        \* how many times ICD10Mapper.__init__ has run
    response,             \* the last request to the endpoint and its response
    service,              \* the DailyMedService of the shared processor
    sessions,             \* the ClientSession objects created so far
    tasks,                \* the calls of get_drug_indications and their position
    table,                \* the rows of icd10_codes_source
    loader                \* the last call of load_icd10_codes_from_csv

vars ==
    <<icd10_df, vectorizer, description_vectors, synonym_lookup, hashSeed,
      call, repeat, extraction, mapper, constructions, response,
      service, sessions, tasks, table, loader>>

mapperVars == <<icd10_df, vectorizer, description_vectors, synonym_lookup>>

routeVars == <<mapper, constructions, response>>

ioVars == <<service, sessions, tasks>>

loaderVars == <<table, loader>>

(***************************************************************************)
(* Bounds of the model                                                     *)
(***************************************************************************)
MaxTextLen == 2

MaxMatchesBound == 3

MaxSections == 2

MaxConstructions == 2

\* the most children of the marked container of a rendered label
MaxHtmlNodes == 2

\* the most requests that are in get_drug_indications at the same time
MaxCallers == 2

\* the most rows of the CSV file
MaxCsvRows == 250

(***************************************************************************)
(* Generic helpers                                                         *)
(***************************************************************************)
None == "None"

Min(a, b) == IF a < b THEN a ELSE b

Max(a, b) == IF a > b THEN a ELSE b

RECURSIVE Sum(_, _)
Sum(f, S) ==
    IF S = {} THEN 0
    ELSE LET x == CHOOSE y \in S : TRUE IN f[x] + Sum(f, S \ {x})

RECURSIVE Flatten(_)
Flatten(ss) == IF ss = <<>> THEN <<>> ELSE Head(ss) \o Flatten(Tail(ss))

Range(s) == {s[i] : i \in DOMAIN s}

SeqsUpTo(S, n) == UNION {[1..k -> S] : k \in 0..n}

(***************************************************************************)
(* icd10_mapper.py: the synonym table and the lookup built from it         *)
(***************************************************************************)
HYPERTENSION == <<"hypertension">>
HIGH_BP == <<"high", "blood", "pressure">>
ELEVATED_BP == <<"elevated", "blood", "pressure">>
HEADACHE == <<"headache">>
HEAD_PAIN == <<"head", "pain">>
SWELLING == <<"swelling">>
EDEMA == <<"edema">>

\* Three clusters of the table, each with its canonical term; the table
\* lists "swelling" among its own synonyms.
MEDICAL_SYNONYMS ==
    (HYPERTENSION :> {HIGH_BP, ELEVATED_BP}) @@ (HEADACHE :> {HEAD_PAIN})
        @@ (SWELLING :> {EDEMA, SWELLING})

\* a synonym mapped to its term alone
BuildSynonymLookup_TermOnly ==
    LET keys == DOMAIN MEDICAL_SYNONYMS
                  \cup UNION {MEDICAL_SYNONYMS[t] : t \in DOMAIN MEDICAL_SYNONYMS}
    IN [p \in keys |->
          UNION { (IF p = t THEN MEDICAL_SYNONYMS[t] ELSE {})
                  \cup (IF p \in MEDICAL_SYNONYMS[t] THEN {t} ELSE {})
                : t \in DOMAIN MEDICAL_SYNONYMS }]

\* self.synonym_lookup after the construction loop: a term maps to its
\* synonyms, a synonym to the term and to the other synonyms.
BuildSynonymLookup ==
    LET keys == DOMAIN MEDICAL_SYNONYMS
                  \cup UNION {MEDICAL_SYNONYMS[t] : t \in DOMAIN MEDICAL_SYNONYMS}
    IN [p \in keys |->
          UNION { (IF p = t THEN MEDICAL_SYNONYMS[t] ELSE {})
                  \cup (IF p \in MEDICAL_SYNONYMS[t]
                        THEN {t} \cup (MEDICAL_SYNONYMS[t] \ {p}) ELSE {})
                : t \in DOMAIN MEDICAL_SYNONYMS }]

(***************************************************************************)
(* The spaCy pipeline used by preprocess_text and get_synonyms             *)
(***************************************************************************)
\* str.lower() on one token
Lower(tok) ==
    CASE tok = "Hypertension" -> "hypertension"
      [] tok = "Headaches" -> "headaches"
      [] OTHER -> tok

\* token.lemma_
Lemma(tok) == IF tok = "headaches" THEN "headache" ELSE tok

IsStop(tok) == tok \in {"the"}

IsPunct(tok) == tok \in {","}

\* tokens that carry a word vector in the language model
HasVector(tok) == tok \notin {"xyz", ","}

\* [x for x in toks if x not in drop]
RECURSIVE SelectTokens(_, _)
SelectTokens(toks, drop) ==
    IF toks = <<>> THEN <<>>
    ELSE (IF Head(toks) \in drop THEN <<>> ELSE <<Head(toks)>>)
         \o SelectTokens(Tail(toks), drop)

LowerText(toks) == [i \in DOMAIN toks |-> Lower(toks[i])]

preprocess_text(text) ==
    LET doc == LowerText(text)
        kept == SelectTokens(doc, {t \in Range(doc) : IsStop(t) \/ IsPunct(t)})
    IN [i \in DOMAIN kept |-> Lemma(kept[i])]

\* doc.vector_norm is zero when no token of the doc has a vector
VectorNorm(doc) == Cardinality({i \in DOMAIN doc : HasVector(doc[i])})

CountTok(tok, doc) == Cardinality({i \in DOMAIN doc : doc[i] = tok})

\* the unit of a score: the code's floats in [0, 1] are hundredths here
ScoreUnit == 100

\* doc.similarity(term_doc): token overlap of the two docs
Similarity(doc1, doc2) ==
    LET toks == {t \in Range(doc1) \cup Range(doc2) : HasVector(t)}
        common == Sum([t \in toks |-> Min(CountTok(t, doc1), CountTok(t, doc2))], toks)
    IN (ScoreUnit * 2 * common) \div (Len(doc1) + Len(doc2))

SynonymSimilarity == 80

\* the similar keys themselves collected in place of their entries
get_synonyms_KeysOnly(self, text) ==
    LET doc == LowerText(text)
    IN IF VectorNorm(doc) = 0 THEN {}
       ELSE {k \in DOMAIN self.synonym_lookup :
               VectorNorm(k) # 0 /\ Similarity(doc, k) > SynonymSimilarity}

\* the comparison similarity >= 0.8 in place of similarity > 0.8
get_synonyms_AtLeast(self, text) ==
    LET doc == LowerText(text)
    IN IF VectorNorm(doc) = 0 THEN {}
       ELSE UNION { self.synonym_lookup[term] :
                      term \in {k \in DOMAIN self.synonym_lookup :
                                  /\ VectorNorm(k) # 0
                                  /\ Similarity(doc, k) >= SynonymSimilarity} }

get_synonyms(self, text) ==
    LET doc == LowerText(text)
    IN IF VectorNorm(doc) = 0 THEN {}
       ELSE UNION { self.synonym_lookup[term] :
                      term \in {k \in DOMAIN self.synonym_lookup :
                                  /\ VectorNorm(k) # 0
                                  /\ Similarity(doc, k) > SynonymSimilarity} }

\* the lookup read at the input text itself instead of at its own keys
LookedUpTerms_Input(self, text) == {LowerText(text)}

\* the terms at which get_synonyms reads self.synonym_lookup[term]
LookedUpTerms(self, text) ==
    LET doc == LowerText(text)
    IN IF VectorNorm(doc) = 0 THEN {}
       ELSE {k \in DOMAIN self.synonym_lookup :
               VectorNorm(k) # 0 /\ Similarity(doc, k) > SynonymSimilarity}

\* defaultdict(set).__getitem__ at each of the keys ks: a key that is
\* missing is put in with an empty set
DefaultDictGet(d, ks) ==
    [k \in DOMAIN d \cup ks |-> IF k \in DOMAIN d THEN d[k] ELSE {}]

\* self.synonym_lookup after get_synonyms(text)
LookupAfterGetSynonyms(self, text) ==
    DefaultDictGet(self.synonym_lookup, LookedUpTerms(self, text))

(***************************************************************************)
(* Iteration order of a Python set of strings: by hash, and the string     *)
(* hash is seeded per process.                                             *)
(***************************************************************************)
PhraseIndex(p) ==
    CASE p = HYPERTENSION -> 1
      [] p = HIGH_BP -> 2
      [] p = ELEVATED_BP -> 3
      [] p = HEADACHE -> 4
      [] p = HEAD_PAIN -> 5
      [] p = SWELLING -> 6
      [] p = EDEMA -> 7

HashSeeds == {0, 5}

StrHash(seed, p) == (PhraseIndex(p) * (seed + 1)) % 7

RECURSIVE SetIteration(_, _)
SetIteration(S, seed) ==
    IF S = {} THEN <<>>
    ELSE LET p == CHOOSE q \in S : \A r \in S : StrHash(seed, q) <= StrHash(seed, r)
         IN <<p>> \o SetIteration(S \ {p}, seed)

\* f"{processed_indication} {' '.join(indication_synonyms)}"
CombinedText(processed, synonyms, seed) ==
    processed \o Flatten(SetIteration(synonyms, seed))

(***************************************************************************)
(* The catalog (icd10_codes_source rows) and the TF-IDF space fitted on    *)
(* its descriptions: TfidfVectorizer(ngram_range=(1, 3),                   *)
(* stop_words="english") and cosine_similarity.                            *)
(***************************************************************************)
Entry(c, d, cat) == [code |-> c, description |-> d, category |-> cat]

Catalogs ==
    { << Entry("I10", <<"essential", "hypertension">>, "circulatory"),
         Entry("R03.0", <<"blood", "pressure", "elevated">>, "symptoms"),
         Entry("R51", <<"headache">>, "symptoms"),
         Entry("G44.1", <<"the", "headache">>, "nervous") >>,
      << Entry("I10", <<"hypertension">>, "circulatory"),
         Entry("I15", <<"high", "blood", "pressure">>, "circulatory"),
         Entry("Z00", <<>>, "factors") >> }

\* the vectorizer's analyzer: stop words and one-character tokens dropped
Analyze(toks) ==
    LET low == LowerText(toks)
    IN SelectTokens(low, {t \in Range(low) : IsStop(t) \/ Len(t) < 2})

NGrams(toks) ==
    {SubSeq(toks, ij[1], ij[2]) : ij \in
        {ij \in (DOMAIN toks) \X (DOMAIN toks) : ij[1] <= ij[2] /\ ij[2] - ij[1] <= 2}}

CountNGram(g, toks) ==
    Cardinality({i \in DOMAIN toks :
                   i + Len(g) - 1 <= Len(toks) /\ SubSeq(toks, i, i + Len(g) - 1) = g})

\* self.icd10_df["description"].fillna("").tolist()
icd10_descriptions(df) == [i \in DOMAIN df |-> df[i].description]

\* smoothed idf, ln((1 + n) / (1 + df)) + 1, in quarters; ln x taken as
\* 2 (x - 1) / (x + 1)
Idf(g, docs) ==
    LET n == Len(docs)
        d == Cardinality({i \in DOMAIN docs : g \in NGrams(Analyze(docs[i]))})
    IN 4 + (8 * (n - d)) \div (n + d + 2)

\* vectorizer.fit: the vocabulary with the idf of each n-gram
Fit(docs) ==
    [g \in UNION {NGrams(Analyze(docs[i])) : i \in DOMAIN docs} |-> Idf(g, docs)]

\* vectorizer.transform: tf * idf over the fitted vocabulary; the L2
\* normalisation is folded into Cosine
Transform(vec, toks) ==
    LET a == Analyze(toks)
    IN [g \in DOMAIN vec |-> CountNGram(g, a) * vec[g]]

FitTransform(docs) == [i \in DOMAIN docs |-> Transform(Fit(docs), docs[i])]

ISqrt(x) == CHOOSE r \in 0..ScoreUnit : r * r <= x /\ x < (r + 1) * (r + 1)

Cosine(u, v) ==
    LET V == DOMAIN u
        dot == Sum([g \in V |-> u[g] * v[g]], V)
        nu == Sum([g \in V |-> u[g] * u[g]], V)
        nv == Sum([g \in V |-> v[g] * v[g]], V)
    IN IF nu = 0 \/ nv = 0 THEN 0
       ELSE ISqrt((((ScoreUnit * dot * dot) \div nu) * ScoreUnit) \div nv)

\* cosine_similarity(indication_vector, self.description_vectors)[0]
SimilarityScores(self, combined) ==
    LET q == Transform(self.vectorizer, combined)
    IN [i \in DOMAIN self.description_vectors |->
          Cosine(q, self.description_vectors[i])]

(***************************************************************************)
(* ICD10Mapper.get_icd10_matches_above_threshold, step by step             *)
(***************************************************************************)
\* an indication argument: a text, or Python's None
NoText == [isNone |-> TRUE, tokens |-> <<>>]

Text(toks) == [isNone |-> FALSE, tokens |-> toks]

RECURSIVE WhereFrom(_, _, _)
WhereFrom(scores, threshold, i) ==
    IF i > Len(scores) THEN <<>>
    ELSE (IF scores[i] >= threshold THEN <<i>> ELSE <<>>)
         \o WhereFrom(scores, threshold, i + 1)

\* the filter left out: every index is kept
MatchesAboveThreshold_NoFilter(scores, threshold) == [i \in DOMAIN scores |-> i]

\* np.where(similarity_scores >= threshold)[0]: the indices, ascending
MatchesAboveThreshold(scores, threshold) == WhereFrom(scores, threshold, 1)

\* np.argsort(values): positions by ascending value, equal values in
\* position order
RECURSIVE ArgSort(_, _)
ArgSort(values, todo) ==
    IF todo = {} THEN <<>>
    ELSE LET k == CHOOSE a \in todo :
                    \A b \in todo : \/ values[a] < values[b]
                                    \/ (values[a] = values[b] /\ a <= b)
         IN <<k>> \o ArgSort(values, todo \ {k})

Reverse(s) == [i \in DOMAIN s |-> s[Len(s) + 1 - i]]

\* the [::-1] left out: ascending by score
SortedIndices_Ascending(scores, above) ==
    LET values == [k \in DOMAIN above |-> scores[above[k]]]
        order == ArgSort(values, DOMAIN values)
    IN [k \in DOMAIN order |-> above[order[k]]]

\* matches_above_threshold[np.argsort(similarity_scores[matches_above_threshold])[::-1]]
SortedIndices(scores, above) ==
    LET values == [k \in DOMAIN above |-> scores[above[k]]]
        order == Reverse(ArgSort(values, DOMAIN values))
    IN [k \in DOMAIN order |-> above[order[k]]]

\* the slice left out
TopIndices_NoLimit(sorted, max_matches) == sorted

\* the slice taken from the wrong end: sorted_indices[-max_matches:]
TopIndices_Tail(sorted, max_matches) ==
    IF max_matches > 0
    THEN SubSeq(sorted, Max(Len(sorted) - max_matches, 0) + 1, Len(sorted))
    ELSE sorted

\* sorted_indices[:max_matches], a Python slice: a negative stop counts
\* from the end
TopIndices(sorted, max_matches) ==
    LET stop == IF max_matches >= 0 THEN Min(max_matches, Len(sorted))
                ELSE Max(Len(sorted) + max_matches, 0)
    IN SubSeq(sorted, 1, stop)

MatchDict(self, scores, idx) ==
    [icd10_code |-> self.icd10_df[idx].code,
     icd10_description |-> self.icd10_df[idx].description,
     icd10_category |-> self.icd10_df[idx].category,
     confidence_score |-> scores[idx]]

\* similarity_scores of the try block, for an indication that is a string
ScoresOf(self, seed, text) ==
    LET processed == preprocess_text(text)
        synonyms == get_synonyms(self, processed)
    IN SimilarityScores(self, CombinedText(processed, synonyms, seed))

\* the matches list built from similarity_scores
MatchesOf(self, scores, threshold, max_matches) ==
    LET above == MatchesAboveThreshold(scores, threshold)
        top == TopIndices(SortedIndices(scores, above), max_matches)
    IN [k \in DOMAIN top |-> MatchDict(self, scores, top[k])]

\* What a method hands back: outcome "return" with a value, or "raise".
\* error records that an exception was thrown inside the try block, scores
\* is the method's similarity_scores.
Returned(kind, val, err, scores) ==
    [outcome |-> "return", error |-> err, value |-> kind, matches |-> val,
     scores |-> scores]

\* an exception that leaves the method
Raised == [outcome |-> "raise", error |-> TRUE, value |-> "None",
           matches |-> <<>>, scores |-> <<>>]

\* None handed back for an empty list, as map_indication does
get_icd10_matches_above_threshold_NoneOnEmpty(self, seed, indication, threshold, max_matches) ==
    IF indication.isNone
    THEN Returned("list", <<>>, TRUE, <<>>)
    ELSE LET scores == ScoresOf(self, seed, indication.tokens)
             matches == MatchesOf(self, scores, threshold, max_matches)
         IN Returned(IF matches = <<>> THEN "None" ELSE "list", matches,
                     FALSE, scores)

\* text.lower() on None raises AttributeError inside the try block, and
\* except Exception returns []
get_icd10_matches_above_threshold(self, seed, indication, threshold, max_matches) ==
    IF indication.isNone
    THEN Returned("list", <<>>, TRUE, <<>>)
    ELSE LET scores == ScoresOf(self, seed, indication.tokens)
         IN Returned("list", MatchesOf(self, scores, threshold, max_matches),
                     FALSE, scores)

(***************************************************************************)
(* ICD10Mapper.find_best_icd10_match and ICD10Mapper.map_indication        *)
(***************************************************************************)
\* np.argmax: the first index holding the largest score
ArgMax(scores) ==
    CHOOSE i \in DOMAIN scores :
        /\ \A j \in DOMAIN scores : scores[j] <= scores[i]
        /\ \A j \in DOMAIN scores : scores[j] = scores[i] => i <= j

\* return None, None, 0.0
NoBestMatch == <<None, None, 0>>

find_best_icd10_match(self, seed, indication, threshold) ==
    IF indication.isNone
    THEN Returned("tuple", NoBestMatch, TRUE, <<>>)
    ELSE LET scores == ScoresOf(self, seed, indication.tokens)
             best == ArgMax(scores)
         IN Returned("tuple",
                     IF scores[best] < threshold THEN NoBestMatch
                     ELSE <<self.icd10_df[best].code,
                            self.icd10_df[best].description,
                            self.icd10_df[best].category, scores[best]>>,
                     FALSE, scores)

DefaultThreshold == 1

MapThreshold == 50

MapMaxMatches == 10

\* len(matches) == 0 returns None, otherwise {"original_text", "matches"}
map_indication(self, seed, indication) ==
    LET r == get_icd10_matches_above_threshold(self, seed, indication,
                                               MapThreshold, MapMaxMatches)
    IN [r EXCEPT !.value = IF Len(r.matches) = 0 THEN "None" ELSE "dict"]

(***************************************************************************)
(* ICD10Mapper.__init__ on the icd10_codes_source table                    *)
(***************************************************************************)
\* The table as the constructor finds it: the query fails, or it gives rows.
Unavailable == [available |-> FALSE, rows |-> <<>>]

Available(rows) == [available |-> TRUE, rows |-> rows]

\* a table whose descriptions hold stop words only
StopWordRows == << Entry("Z99", <<"the">>, "factors") >>

Stores ==
    {Unavailable} \cup {Available(rows) : rows \in Catalogs \cup {<<>>, StopWordRows}}

\* the attributes of an object on which __init__ has set none
NoSelf ==
    [icd10_df |-> <<>>, vectorizer |-> <<>>, description_vectors |-> <<>>,
     synonym_lookup |-> <<>>]

\* the except clause without its raise: the caller is handed the object
\* as far as it was set up
ICD10Mapper_init_Swallow(store) ==
    IF \/ ~store.available
       \/ store.rows = <<>>
       \/ DOMAIN Fit(icd10_descriptions(store.rows)) = {}
    THEN [outcome |-> "return", self |-> NoSelf]
    ELSE [outcome |-> "return",
          self |-> [icd10_df |-> store.rows,
                    vectorizer |-> Fit(icd10_descriptions(store.rows)),
                    description_vectors |-> FitTransform(icd10_descriptions(store.rows)),
                    synonym_lookup |-> BuildSynonymLookup]]

\* ICD10Mapper(): db.query raises when the table cannot be read; a table
\* without rows gives a DataFrame without a description column, and
\* icd10_df["description"] raises KeyError; fit_transform raises
\* ValueError on an empty vocabulary.  The except clause logs and raises
\* again, so the caller gets no object.
ICD10Mapper_init(store) ==
    IF \/ ~store.available
       \/ store.rows = <<>>
       \/ DOMAIN Fit(icd10_descriptions(store.rows)) = {}
    THEN [outcome |-> "raise", self |-> NoSelf]
    ELSE [outcome |-> "return",
          self |-> [icd10_df |-> store.rows,
                    vectorizer |-> Fit(icd10_descriptions(store.rows)),
                    description_vectors |-> FitTransform(icd10_descriptions(store.rows)),
                    synonym_lookup |-> BuildSynonymLookup]]

\* The reference to a mapper: whether one is held, how its construction
\* ended and on which table it ran.
NoMapper == [held |-> FALSE, init |-> "none", store |-> Unavailable]

MapperRef(store, m) == [held |-> m.outcome = "return", init |-> m.outcome, store |-> store]

(***************************************************************************)
(* The service: a mapper constructed on the catalog, and calls on it       *)
(***************************************************************************)
RawTokens == {"Hypertension", "Headaches", "the", ",", "pressure", "xyz"}

Indications == {Text(t) : t \in SeqsUpTo(RawTokens, MaxTextLen)} \cup {NoText}

Thresholds == {0, DefaultThreshold, MapThreshold}

MaxMatchesValues == (-1)..MaxMatchesBound

NoReturn ==
    [outcome |-> "none", error |-> FALSE, value |-> "None", matches |-> <<>>,
     scores |-> <<>>]

NoCall ==
    [op |-> "none", indication |-> NoText, threshold |-> 0, max_matches |-> 0,
     seed |-> 0, ret |-> NoReturn]

\* the mapper object as the methods see it
Self ==
    [icd10_df |-> icd10_df, vectorizer |-> vectorizer,
     description_vectors |-> description_vectors,
     synonym_lookup |-> synonym_lookup]

\* ICD10Mapper.__init__ on the rows of the catalog table
MapperInit(df) ==
    /\ icd10_df = df
    /\ vectorizer = Fit(icd10_descriptions(df))
    /\ description_vectors = FitTransform(icd10_descriptions(df))
    /\ synonym_lookup = BuildSynonymLookup

NoExtraction ==
    [op |-> "none", document |-> [isNone |-> TRUE, sections |-> <<>>],
     ret |-> [outcome |-> "none", error |-> FALSE, value |-> "None",
              fragments |-> <<>>, text |-> "", accumulated |-> <<>>,
              byCode |-> {}, titleTested |-> {}, byTitle |-> {},
              fromItems |-> <<>>]]

\* no request to the endpoint yet
NoResponse ==
    [drug |-> "", error |-> None, indication |-> None, reached |-> FALSE,
     store |-> Unavailable, init |-> "none", served |-> FALSE, status |-> 0]

Callers == 1..MaxCallers

\* self.session = None
NoSession == 0

\* DailyMedService.__init__
DailyMedService_init == [session |-> NoSession]

\* What get_spl_info hands back: None (a failed request, or no "data"), or
\* the first element of "data": a dict, with or without other keys and a
\* setid, or something that is not a dict.
SplInfo(kind, setid, other) == [kind |-> kind, setid |-> setid, other |-> other]

\* What get_spl_details hands back: None (a failed request), or the text of
\* the response, which may be empty.
NoXml == [isNone |-> TRUE, sections |-> <<>>, empty |-> TRUE]

\* a value of the returned dict that is None
NoValue == [value |-> "None", fragments |-> <<>>, text |-> ""]

NoDrugIndications ==
    [outcome |-> "none", drug |-> "", set_id |-> None, indication |-> NoValue,
     directions |-> NoValue, error |-> None]

\* A call of get_drug_indications: where it is, the session object its
\* pending request was made on, and what it has seen so far.
NoTask ==
    [pc |-> "idle", drug |-> "", request |-> NoSession,
     spl_info |-> SplInfo("None", None, FALSE), looked |-> FALSE,
     set_id |-> None, fetched |-> FALSE, xml_content |-> NoXml,
     extracted |-> FALSE, raised |-> FALSE, ret |-> NoDrugIndications]

\* no call yet
NoLoad == [outcome |-> "none", csv_rows |-> 0]

\* the processor as routes.py constructs it, no call of
\* get_drug_indications yet, an empty table and no call of the loader yet
InitIo ==
    /\ service = DailyMedService_init
    /\ sessions = [i \in Callers |-> "unopened"]
    /\ tasks = [i \in Callers |-> NoTask]
    /\ table = 0
    /\ loader = NoLoad

Init ==
    /\ \E df \in Catalogs :
          /\ MapperInit(df)
          /\ mapper = MapperRef(Available(df), ICD10Mapper_init(Available(df)))
    /\ hashSeed \in HashSeeds
    /\ call = NoCall
    /\ repeat = NoReturn
    /\ extraction = NoExtraction
    /\ constructions = 1
    /\ response = NoResponse
    /\ InitIo

\* the method named op on the arguments of c, in the running process
Invoke(c) ==
    CASE c.op = "get_icd10_matches_above_threshold" ->
           get_icd10_matches_above_threshold(Self, hashSeed, c.indication,
                                             c.threshold, c.max_matches)
      [] c.op = "find_best_icd10_match" ->
           find_best_icd10_match(Self, hashSeed, c.indication, c.threshold)
      [] c.op = "map_indication" ->
           map_indication(Self, hashSeed, c.indication)
      [] c.op = "preprocess_text" ->
           IF c.indication.isNone THEN Raised
           ELSE Returned("str", preprocess_text(c.indication.tokens), FALSE, <<>>)
      [] c.op = "get_synonyms" ->
           IF c.indication.isNone THEN Raised
           ELSE Returned("set", get_synonyms(Self, c.indication.tokens), FALSE, <<>>)

\* self.synonym_lookup after call c: the matching methods hand the
\* preprocessed text to get_synonyms, and text.lower() on None raises
\* before anything is read
LookupAfter(c) ==
    IF c.indication.isNone \/ c.op = "preprocess_text" THEN synonym_lookup
    ELSE IF c.op = "get_synonyms"
    THEN LookupAfterGetSynonyms(Self, c.indication.tokens)
    ELSE LookupAfterGetSynonyms(Self, preprocess_text(c.indication.tokens))

\* the record of call c made now
Answer(c) == [c EXCEPT !.seed = hashSeed, !.ret = Invoke(c)]

GetMatchesAboveThreshold ==
    /\ mapper.held
    /\ call.op = "none"
    /\ \E ind \in Indications, th \in Thresholds, n \in MaxMatchesValues :
          LET c == [NoCall EXCEPT !.op = "get_icd10_matches_above_threshold",
                              !.indication = ind, !.threshold = th,
                              !.max_matches = n]
          IN call' = Answer(c) /\ synonym_lookup' = LookupAfter(c)
    /\ repeat' = NoReturn
    /\ UNCHANGED <<ioVars, loaderVars, icd10_df, vectorizer, description_vectors, hashSeed, extraction, routeVars>>

FindBestMatch ==
    /\ mapper.held
    /\ call.op = "none"
    /\ \E ind \in Indications, th \in Thresholds :
          LET c == [NoCall EXCEPT !.op = "find_best_icd10_match",
                              !.indication = ind, !.threshold = th,
                              !.max_matches = 1]
          IN call' = Answer(c) /\ synonym_lookup' = LookupAfter(c)
    /\ repeat' = NoReturn
    /\ UNCHANGED <<ioVars, loaderVars, icd10_df, vectorizer, description_vectors, hashSeed, extraction, routeVars>>

MapIndication ==
    /\ mapper.held
    /\ call.op = "none"
    /\ \E ind \in Indications :
          LET c == [NoCall EXCEPT !.op = "map_indication",
                              !.indication = ind,
                              !.threshold = MapThreshold,
                              !.max_matches = MapMaxMatches]
          IN call' = Answer(c) /\ synonym_lookup' = LookupAfter(c)
    /\ repeat' = NoReturn
    /\ UNCHANGED <<ioVars, loaderVars, icd10_df, vectorizer, description_vectors, hashSeed, extraction, routeVars>>

\* ICD10Mapper.preprocess_text called on its own
PreprocessText ==
    /\ mapper.held
    /\ call.op = "none"
    /\ \E ind \in Indications :
          LET c == [NoCall EXCEPT !.op = "preprocess_text", !.indication = ind]
          IN call' = Answer(c) /\ synonym_lookup' = LookupAfter(c)
    /\ repeat' = NoReturn
    /\ UNCHANGED <<ioVars, loaderVars, icd10_df, vectorizer, description_vectors, hashSeed, extraction, routeVars>>

\* the texts handed to get_synonyms on its own: the indications, a phrase
\* that shares two of the three words of a synonym, and two of the terms
Phrases ==
    Indications \cup {Text(<<"blood", "pressure">>), Text(HEADACHE), Text(SWELLING)}

\* ICD10Mapper.get_synonyms called on its own
GetSynonyms ==
    /\ mapper.held
    /\ call.op = "none"
    /\ \E ind \in Phrases :
          LET c == [NoCall EXCEPT !.op = "get_synonyms", !.indication = ind]
          IN call' = Answer(c) /\ synonym_lookup' = LookupAfter(c)
    /\ repeat' = NoReturn
    /\ UNCHANGED <<ioVars, loaderVars, icd10_df, vectorizer, description_vectors, hashSeed, extraction, routeVars>>

\* The same call made once more, on the mapper as it is now.
CallAgain ==
    /\ call.op # "none"
    /\ repeat.outcome = "none"
    /\ repeat' = Invoke(call)
    /\ synonym_lookup' = LookupAfter(call)
    /\ UNCHANGED <<ioVars, loaderVars, icd10_df, vectorizer, description_vectors, hashSeed, call, extraction, routeVars>>

\* The caller is done with the answers.
Forget ==
    /\ call.op # "none"
    /\ call' = NoCall
    /\ repeat' = NoReturn
    /\ UNCHANGED <<ioVars, loaderVars, mapperVars, hashSeed, extraction, routeVars>>

\* The service process is started again on the same database: the mapper
\* is constructed on the same rows, the string hash seed is drawn afresh.
Restart ==
    /\ hashSeed' \in HashSeeds \ {hashSeed}
    /\ MapperInit(icd10_df)
    /\ UNCHANGED <<ioVars, loaderVars, mapperVars, call, repeat, extraction, routeVars>>

(***************************************************************************)
(* dailymed_extractor.py: keywords, text helpers and the document model    *)
(***************************************************************************)
INDICATION_KEYWORDS ==
    << "Indications", "Indication", "Use", "Uses", "Usage",
       "INDICATIONS AND USAGE", "INDICATIONS & USAGE",
       "INDICATIONS &amp; USAGE" >>

DIRECTION_KEYWORDS ==
    << "Directions", "Direction", "Administration",
       "DOSAGE AND ADMINISTRATION", "DOSAGE & ADMINISTRATION", "How to use",
       "Method of Administration" >>

IndicationCode == "34067-9"

DirectionCode == "34068-7"

LowerChar(c) ==
    CASE c = "A" -> "a" [] c = "B" -> "b" [] c = "C" -> "c" [] c = "D" -> "d"
      [] c = "E" -> "e" [] c = "F" -> "f" [] c = "G" -> "g" [] c = "H" -> "h"
      [] c = "I" -> "i" [] c = "J" -> "j" [] c = "K" -> "k" [] c = "L" -> "l"
      [] c = "M" -> "m" [] c = "N" -> "n" [] c = "O" -> "o" [] c = "P" -> "p"
      [] c = "Q" -> "q" [] c = "R" -> "r" [] c = "S" -> "s" [] c = "T" -> "t"
      [] c = "U" -> "u" [] c = "V" -> "v" [] c = "W" -> "w" [] c = "X" -> "x"
      [] c = "Y" -> "y" [] c = "Z" -> "z" [] OTHER -> c

\* str.lower()
RECURSIVE LowerStr(_)
LowerStr(s) ==
    IF s = "" THEN ""
    ELSE LowerChar(SubSeq(s, 1, 1)) \o LowerStr(SubSeq(s, 2, Len(s)))

\* str.strip()
RECURSIVE Strip(_)
Strip(s) ==
    IF s = "" THEN ""
    ELSE IF SubSeq(s, 1, 1) = " " THEN Strip(SubSeq(s, 2, Len(s)))
    ELSE IF SubSeq(s, Len(s), Len(s)) = " " THEN Strip(SubSeq(s, 1, Len(s) - 1))
    ELSE s

\* keyword in title_text
Contains(s, k) ==
    \E i \in 1..(Len(s) - Len(k) + 1) : SubSeq(s, i, i + Len(k) - 1) = k

\* The children of a <text> element.  A paragraph holds one string, a list
\* its items' strings, a table its rows of cell strings.
StringNode(t) == [kind |-> "string", text |-> t, items |-> <<>>, rows |-> <<>>]

Paragraph(t) == [kind |-> "paragraph", text |-> t, items |-> <<>>, rows |-> <<>>]

ListOf(items) == [kind |-> "list", text |-> "", items |-> items, rows |-> <<>>]

Table(rows) == [kind |-> "table", text |-> "", items |-> <<>>, rows |-> rows]

\* Tag.string: the string of a node that holds exactly one string, through
\* any chain of only children; None otherwise
StringOf(node) ==
    CASE node.kind = "string" -> node.text
      [] node.kind = "paragraph" -> IF node.text = "" THEN None ELSE node.text
      [] node.kind = "list" ->
           IF Len(node.items) = 1 /\ node.items[1] # "" THEN node.items[1] ELSE None
      [] node.kind = "table" ->
           IF Len(node.rows) = 1 /\ Len(node.rows[1]) = 1 /\ node.rows[1][1] # ""
           THEN node.rows[1][1] ELSE None

\* get_text_content of an element that holds the one string t
get_text_content_str(t) == Strip(t)

\* get_text_content of a <text> element: the strings of its children,
\* each stripped, concatenated
RECURSIVE ConcatChildren(_)
ConcatChildren(children) ==
    IF children = <<>> THEN ""
    ELSE LET st == StringOf(Head(children))
         IN (IF st = None \/ st = "" THEN "" ELSE Strip(st))
            \o ConcatChildren(Tail(children))

get_text_content(children) == Strip(ConcatChildren(children))

RECURSIVE JoinWith(_, _)
JoinWith(sep, parts) ==
    IF parts = <<>> THEN ""
    ELSE IF Len(parts) = 1 THEN parts[1]
    ELSE parts[1] \o sep \o JoinWith(sep, Tail(parts))

RECURSIVE SelectNonEmpty(_)
SelectNonEmpty(ts) ==
    IF ts = <<>> THEN <<>>
    ELSE (IF Head(ts) = "" THEN <<>> ELSE <<Head(ts)>>) \o SelectNonEmpty(Tail(ts))

\* process_table: a row is its non-empty cell texts joined by " - "; a row
\* without one is left out
RECURSIVE process_table(_)
process_table(rows) ==
    IF rows = <<>> THEN <<>>
    ELSE LET row_text == SelectNonEmpty([i \in DOMAIN Head(rows) |->
                                           get_text_content_str(Head(rows)[i])])
         IN (IF row_text = <<>> THEN <<>> ELSE <<JoinWith(" - ", row_text)>>)
            \o process_table(Tail(rows))

NoTitle == [present |-> FALSE, text |-> ""]

Title(t) == [present |-> TRUE, text |-> t]

NoBody == [present |-> FALSE, children |-> <<>>]

Body(children) == [present |-> TRUE, children |-> children]

\* a <section>: the code attribute of its <code> element ("none" without
\* one), its <title> and its <text>
Section(code, title, text) == [code |-> code, title |-> title, text |-> text]

RECURSIVE ParagraphTexts(_)
ParagraphTexts(children) ==
    IF children = <<>> THEN <<>>
    ELSE (IF Head(children).kind = "paragraph"
          THEN SelectNonEmpty(<<get_text_content_str(Head(children).text)>>)
          ELSE <<>>)
         \o ParagraphTexts(Tail(children))

RECURSIVE ItemTexts(_)
ItemTexts(children) ==
    IF children = <<>> THEN <<>>
    ELSE (IF Head(children).kind = "list"
          THEN SelectNonEmpty([i \in DOMAIN Head(children).items |->
                                 get_text_content_str(Head(children).items[i])])
          ELSE <<>>)
         \o ItemTexts(Tail(children))

RECURSIVE TableTexts(_)
TableTexts(children) ==
    IF children = <<>> THEN <<>>
    ELSE (IF Head(children).kind = "table" THEN process_table(Head(children).rows)
          ELSE <<>>)
         \o TableTexts(Tail(children))

\* if text and text not in fragments: fragments.append(text)
AppendDirect(fragments, children) ==
    LET text == get_text_content(children)
    IN IF text # "" /\ text \notin Range(fragments)
       THEN Append(fragments, text) ELSE fragments

\* the fragments one matched section adds to indications
IndicationText(indications, section) ==
    IF ~section.text.present THEN indications
    ELSE LET c == section.text.children
         IN AppendDirect(indications \o ParagraphTexts(c) \o ItemTexts(c), c)

\* the marker put before a list item of directions (U+2022 and a space in
\* the code, written in ASCII here)
BulletMarker == "* "

\* the list items appended as they are
Bullet_None(items) == items

Bullet(items) == [i \in DOMAIN items |-> BulletMarker \o items[i]]

\* the fragments one matched section adds to directions
DirectionText(directions, section) ==
    IF ~section.text.present THEN directions
    ELSE LET c == section.text.children
         IN AppendDirect(directions \o ParagraphTexts(c) \o Bullet(ItemTexts(c))
                           \o TableTexts(c), c)

\* keyword.lower() for every keyword of a list
IndicationKeywordsLower ==
    [k \in DOMAIN INDICATION_KEYWORDS |-> LowerStr(INDICATION_KEYWORDS[k])]

DirectionKeywordsLower ==
    [k \in DOMAIN DIRECTION_KEYWORDS |-> LowerStr(DIRECTION_KEYWORDS[k])]

\* the title test of the directions, containment, used for the indications
IndicationTitle_Contains(title) ==
    LET title_text == LowerStr(get_text_content_str(title.text))
    IN \E k \in DOMAIN INDICATION_KEYWORDS :
          Contains(title_text, IndicationKeywordsLower[k])

\* any(keyword.lower() == title_text for keyword in INDICATION_KEYWORDS)
IndicationTitle(title) ==
    LET title_text == LowerStr(get_text_content_str(title.text))
    IN \E k \in DOMAIN INDICATION_KEYWORDS :
          IndicationKeywordsLower[k] = title_text

\* the title test of the indications, equality, used for the directions
DirectionTitle_Exact(title) ==
    LET title_text == LowerStr(get_text_content_str(title.text))
    IN \E k \in DOMAIN DIRECTION_KEYWORDS :
          DirectionKeywordsLower[k] = title_text

\* any(keyword.lower() in title_text for keyword in DIRECTION_KEYWORDS)
DirectionTitle(title) ==
    LET title_text == LowerStr(get_text_content_str(title.text))
    IN \E k \in DOMAIN DIRECTION_KEYWORDS :
          Contains(title_text, DirectionKeywordsLower[k])

\* the fragments the list pass appends for one matched section
IndicationItems(section) ==
    IF ~section.text.present THEN <<>> ELSE ItemTexts(section.text.children)

DirectionItems(section) ==
    IF ~section.text.present THEN <<>>
    ELSE Bullet(ItemTexts(section.text.children))

\* The loop state: the fragments so far, the sections taken by their code,
\* the sections whose title was tested, the sections taken by their title
\* and the fragments that the list passes appended.
LoopStart ==
    [fragments |-> <<>>, byCode |-> {}, titleTested |-> {}, byTitle |-> {},
     fromItems |-> <<>>]

\* the title test and what follows it, for section number i
IndicationByTitle(acc, section, i) ==
    IF ~section.title.present THEN acc
    ELSE IF ~IndicationTitle(section.title)
    THEN [acc EXCEPT !.titleTested = @ \cup {i}]
    ELSE [acc EXCEPT !.titleTested = @ \cup {i},
                     !.fragments = IndicationText(@, section),
                     !.byTitle = @ \cup {i},
                     !.fromItems = @ \o IndicationItems(section)]

DirectionByTitle(acc, section, i) ==
    IF ~section.title.present THEN acc
    ELSE IF ~DirectionTitle(section.title)
    THEN [acc EXCEPT !.titleTested = @ \cup {i}]
    ELSE [acc EXCEPT !.titleTested = @ \cup {i},
                     !.fragments = DirectionText(@, section),
                     !.byTitle = @ \cup {i},
                     !.fromItems = @ \o DirectionItems(section)]

\* the continue left out: a section taken by its code goes on to the title test
IndicationSection_NoContinue(acc, section, i) ==
    IF section.code = IndicationCode
    THEN IndicationByTitle([acc EXCEPT !.byCode = @ \cup {i},
                                       !.fragments = IndicationText(@, section),
                                       !.fromItems = @ \o IndicationItems(section)],
                           section, i)
    ELSE IndicationByTitle(acc, section, i)

\* one pass of the loop of extract_indication
IndicationSection(acc, section, i) ==
    IF section.code = IndicationCode
    THEN [acc EXCEPT !.byCode = @ \cup {i},
                     !.fragments = IndicationText(@, section),
                     !.fromItems = @ \o IndicationItems(section)]
    ELSE IndicationByTitle(acc, section, i)

\* one pass of the loop of extract_directions
DirectionSection(acc, section, i) ==
    IF section.code = DirectionCode
    THEN [acc EXCEPT !.byCode = @ \cup {i},
                     !.fragments = DirectionText(@, section),
                     !.fromItems = @ \o DirectionItems(section)]
    ELSE DirectionByTitle(acc, section, i)

RECURSIVE IndicationLoop(_, _, _)
IndicationLoop(acc, sections, i) ==
    IF i > Len(sections) THEN acc
    ELSE IndicationLoop(IndicationSection(acc, sections[i], i), sections, i + 1)

RECURSIVE DirectionLoop(_, _, _)
DirectionLoop(acc, sections, i) ==
    IF i > Len(sections) THEN acc
    ELSE DirectionLoop(DirectionSection(acc, sections[i], i), sections, i + 1)

\* the last occurrence kept instead of the first
RECURSIVE Dedup_KeepLast(_)
Dedup_KeepLast(xs) ==
    IF xs = <<>> THEN <<>>
    ELSE (IF Head(xs) \in Range(Tail(xs)) THEN <<>> ELSE <<Head(xs)>>)
         \o Dedup_KeepLast(Tail(xs))

RECURSIVE DedupFrom(_, _)
DedupFrom(xs, seen) ==
    IF xs = <<>> THEN <<>>
    ELSE (IF Head(xs) \in seen THEN <<>> ELSE <<Head(xs)>>)
         \o DedupFrom(Tail(xs), seen \cup {Head(xs)})

\* seen = set(); [x for x in xs if not (x in seen or seen.add(x))]
Dedup(xs) == DedupFrom(xs, {})

(***************************************************************************)
(* DailyMedExtractor.extract_indication and extract_directions             *)
(***************************************************************************)
\* an xml_content argument: a document, or Python's None
NoDocument == [isNone |-> TRUE, sections |-> <<>>]

Document(sections) == [isNone |-> FALSE, sections |-> sections]

\* BeautifulSoup(None, "xml") raises TypeError inside the try block, and
\* except Exception returns None
Extracted(kind, loop, unique, err) ==
    [outcome |-> "return", error |-> err, value |-> kind,
     fragments |-> unique,
     text |-> IF kind = "str" THEN JoinWith("\n", unique) ELSE "",
     accumulated |-> loop.fragments, byCode |-> loop.byCode,
     titleTested |-> loop.titleTested, byTitle |-> loop.byTitle,
     fromItems |-> loop.fromItems]

extract_indication(xml_content) ==
    IF xml_content.isNone THEN Extracted("None", LoopStart, <<>>, TRUE)
    ELSE LET loop == IndicationLoop(LoopStart, xml_content.sections, 1)
         IN Extracted("list", loop, Dedup(loop.fragments), FALSE)

\* the except clause left out: the TypeError of the parser reaches the caller
extract_directions_NoExcept(xml_content) ==
    IF xml_content.isNone
    THEN [Extracted("None", LoopStart, <<>>, TRUE) EXCEPT !.outcome = "raise"]
    ELSE LET loop == DirectionLoop(LoopStart, xml_content.sections, 1)
         IN Extracted("str", loop, Dedup(loop.fragments), FALSE)

extract_directions(xml_content) ==
    IF xml_content.isNone THEN Extracted("None", LoopStart, <<>>, TRUE)
    ELSE LET loop == DirectionLoop(LoopStart, xml_content.sections, 1)
         IN Extracted("str", loop, Dedup(loop.fragments), FALSE)

SectionCodes == {IndicationCode, DirectionCode, "none"}

Titles == {NoTitle, Title(" USES"), Title("Directions for use")}

Bodies ==
    { NoBody,
      Body(<<Paragraph("A"), Paragraph("B")>>),
      Body(<<Paragraph("A"), ListOf(<<"B", "A">>)>>),
      Body(<<StringNode(" "), Paragraph("A "), ListOf(<<"A">>),
             Table(<< <<"A", "", "B">>, <<"">> >>)>>),
      Body(<<ListOf(<<"B">>), Paragraph("A")>>),
      Body(<<StringNode("C")>>) }

Sections == {Section(c, t, b) : c \in SectionCodes, t \in Titles, b \in Bodies}

Documents == {Document(ss) : ss \in SeqsUpTo(Sections, MaxSections)} \cup {NoDocument}

ExtractIndication ==
    /\ extraction.op = "none"
    /\ \E doc \in Documents :
          extraction' = [op |-> "extract_indication", document |-> doc,
                         ret |-> extract_indication(doc)]
    /\ UNCHANGED <<ioVars, loaderVars, mapperVars, hashSeed, call, repeat, routeVars>>

ExtractDirections ==
    /\ extraction.op = "none"
    /\ \E doc \in Documents :
          extraction' = [op |-> "extract_directions", document |-> doc,
                         ret |-> extract_directions(doc)]
    /\ UNCHANGED <<ioVars, loaderVars, mapperVars, hashSeed, call, repeat, routeVars>>

\* The caller is done with the extracted text.
ForgetExtraction ==
    /\ extraction.op # "none"
    /\ extraction' = NoExtraction
    /\ UNCHANGED <<ioVars, loaderVars, mapperVars, hashSeed, call, repeat, routeVars>>

(***************************************************************************)
(* pdf_service.py: PDFService.extract_indications_section on the rendered  *)
(* HTML of a label                                                         *)
(***************************************************************************)
\* A node of the parsed page: a string, or a tag with its children.
HtmlText(t) == [kind |-> "text", name |-> "", text |-> t, children |-> <<>>]

HtmlTag(name, children) ==
    [kind |-> "tag", name |-> name, text |-> "", children |-> children]

\* node.strings of a tag: every string below it, in document order
RECURSIVE Strings(_)
Strings(node) ==
    IF node.kind = "text" THEN <<node.text>>
    ELSE Flatten([i \in DOMAIN node.children |-> Strings(node.children[i])])

\* indications_section.find_all("div", recursive=True): every div below the
\* node, in document order
RECURSIVE find_all_div(_)
find_all_div(node) ==
    Flatten([i \in DOMAIN node.children |->
                LET child == node.children[i]
                IN (IF child.kind = "tag" /\ child.name = "div"
                    THEN <<child>> ELSE <<>>) \o find_all_div(child)])

\* ". ".join(s.strip() for s in section.strings if s.strip())
SectionText(section) ==
    LET strings == Strings(section)
    IN JoinWith(". ", SelectNonEmpty([i \in DOMAIN strings |-> Strip(strings[i])]))

\* the title that the clean-up loop looks for in text.lower()
SectionTitle == "indications and usage"

\* the title test left out of the clean-up loop
RECURSIVE CleanFrom_KeepTitle(_, _)
CleanFrom_KeepTitle(xs, seen) ==
    IF xs = <<>> THEN <<>>
    ELSE (IF Head(xs) \in seen THEN <<>> ELSE <<Head(xs)>>)
         \o CleanFrom_KeepTitle(Tail(xs), seen \cup {Head(xs)})

\* for text in extracted_indications:
\*     if text not in seen and not "indications and usage" in text.lower():
\*         seen.add(text); indications.append(text)
RECURSIVE CleanFrom(_, _)
CleanFrom(xs, seen) ==
    IF xs = <<>> THEN <<>>
    ELSE LET text == Head(xs)
             keep == text \notin seen /\ ~Contains(LowerStr(text), SectionTitle)
         IN (IF keep THEN <<text>> ELSE <<>>)
            \o CleanFrom(Tail(xs), IF keep THEN seen \cup {text} ELSE seen)

\* The file at file_path: open() raises when it cannot be read; the page has
\* the div with data-sectioncode="34067-9", or it has not.
UnreadableFile == [readable |-> FALSE, marked |-> FALSE, children |-> <<>>]

UnmarkedPage == [readable |-> TRUE, marked |-> FALSE, children |-> <<>>]

MarkedPage(children) == [readable |-> TRUE, marked |-> TRUE, children |-> children]

\* what extract_indications_section hands back: a list, or None; error
\* records an exception caught by except Exception, extracted is
\* extracted_indications
HtmlExtracted(kind, indications, err, extracted) ==
    [outcome |-> "return", error |-> err, value |-> kind,
     fragments |-> indications, accumulated |-> extracted]

\* Without a nested div the loop runs over the children of the container.
\* A child that is a string has .strings in the releases of the parser
\* library that define it on strings (stringsOnText); in the others the
\* attribute lookup raises AttributeError, which ends in return None.
extract_indications_section(file, stringsOnText) ==
    IF ~file.readable THEN HtmlExtracted("None", <<>>, TRUE, <<>>)
    ELSE IF ~file.marked THEN HtmlExtracted("None", <<>>, FALSE, <<>>)
    ELSE LET indications_section == HtmlTag("div", file.children)
             divs == find_all_div(indications_section)
             content_sections == IF Len(divs) = 0 THEN file.children ELSE divs
             raises == /\ ~stringsOnText
                       /\ \E i \in DOMAIN content_sections :
                             content_sections[i].kind = "text"
             extracted_indications ==
                 SelectNonEmpty([i \in DOMAIN content_sections |->
                                    SectionText(content_sections[i])])
             indications == CleanFrom(extracted_indications, {})
         IN IF raises THEN HtmlExtracted("None", <<>>, TRUE, <<>>)
            ELSE IF indications = <<>>
            THEN HtmlExtracted("None", <<>>, FALSE, extracted_indications)
            ELSE HtmlExtracted("list", indications, FALSE, extracted_indications)

\* the children of the marked container that the pages are made of
HtmlNodes ==
    { HtmlText(" "),
      HtmlText("Pain"),
      HtmlTag("p", <<HtmlText("Fever")>>),
      HtmlTag("p", <<HtmlText("INDICATIONS AND USAGE")>>),
      HtmlTag("div", <<>>),
      HtmlTag("div", <<HtmlText(" Pain ")>>),
      HtmlTag("div", <<HtmlText("1 Indications and Usage")>>),
      HtmlTag("div", <<HtmlText("Fever"),
                       HtmlTag("p", <<HtmlText(" "), HtmlText("Pain")>>)>>),
      HtmlTag("div", <<HtmlTag("div", <<HtmlText("Pain")>>)>>),
      HtmlTag("div", <<HtmlTag("h1", <<HtmlText("Indications and usage")>>),
                       HtmlTag("div", <<HtmlText("Fever")>>)>>) }

HtmlFiles ==
    {UnreadableFile, UnmarkedPage}
        \cup {MarkedPage(children) : children \in SeqsUpTo(HtmlNodes, MaxHtmlNodes)}

ExtractIndicationsSection ==
    /\ extraction.op = "none"
    /\ \E file \in HtmlFiles, stringsOnText \in BOOLEAN :
          extraction' = [op |-> "extract_indications_section", document |-> file,
                         ret |-> extract_indications_section(file, stringsOnText)]
    /\ UNCHANGED <<ioVars, loaderVars, mapperVars, hashSeed, call, repeat, routeVars>>

(***************************************************************************)
(* api/routes.py: GET /drugs/{drug_name}/indications, and a process that   *)
(* constructs its mapper when it starts                                    *)
(***************************************************************************)
\* what processor.get_drug_indications hands to the handler
DrugData(error, indication) == [error |-> error, indication |-> indication]

DrugDatas ==
    { DrugData("No SPL information found", None),
      DrugData("No XML content found", None),
      DrugData(None, <<"Hypertension">>) }

DrugNames == {"aspirin", "ibuprofen"}

\* The handler.  A result with an error raises HTTPException(404) inside
\* the try block, and except Exception turns it into a 500.  Otherwise
\* ICD10Mapper() is constructed for this request; if that raises, the
\* response is a 500; if it returns, the attribute map_indications, which
\* the class does not have, raises AttributeError before any method runs,
\* and the response is a 500.
get_drug_indication_mappings(drug_name, drug_data, store) ==
    IF drug_data.error # None
    THEN [drug |-> drug_name, error |-> drug_data.error,
          indication |-> drug_data.indication, reached |-> FALSE,
          store |-> Unavailable, init |-> "none", served |-> FALSE,
          status |-> 500]
    ELSE [drug |-> drug_name, error |-> None,
          indication |-> drug_data.indication, reached |-> TRUE,
          store |-> store, init |-> ICD10Mapper_init(store).outcome,
          served |-> FALSE, status |-> 500]

GetDrugIndicationMappings ==
    /\ constructions < MaxConstructions
    /\ \E drug_name \in DrugNames, drug_data \in DrugDatas, store \in Stores :
          LET r == get_drug_indication_mappings(drug_name, drug_data, store)
          IN /\ response' = r
             /\ constructions' = IF r.reached THEN constructions + 1
                                 ELSE constructions
    /\ UNCHANGED <<ioVars, loaderVars, mapperVars, hashSeed, call, repeat, extraction, mapper>>

\* The process constructs its mapper, once, and keeps the object if the
\* constructor returns one.
Construct ==
    /\ mapper.init = "none"
    /\ constructions < MaxConstructions
    /\ \E store \in Stores :
          LET m == ICD10Mapper_init(store)
          IN /\ mapper' = MapperRef(store, m)
             /\ icd10_df' = m.self.icd10_df
             /\ vectorizer' = m.self.vectorizer
             /\ description_vectors' = m.self.description_vectors
             /\ synonym_lookup' = m.self.synonym_lookup
    /\ constructions' = constructions + 1
    /\ UNCHANGED <<ioVars, loaderVars, hashSeed, call, repeat, extraction, response>>

(***************************************************************************)
(* dailymed_service.py and dailymed_processor.py: the processor shared by  *)
(* all requests, and the calls of get_drug_indications that are under way  *)
(***************************************************************************)
\* __aenter__ in call i: self.session = aiohttp.ClientSession(); the object
\* created in call i is named i
aenter(svc, i) == [svc EXCEPT !.session = i]

\* the session objects after __aexit__: if self.session: await
\* self.session.close()
aexit(svc, ss) ==
    IF svc.session = NoSession THEN ss
    ELSE [ss EXCEPT ![svc.session] = "closed"]

\* the answers of get_spl_info
SplInfos ==
    { SplInfo("None", None, FALSE),
      SplInfo("dict", None, FALSE),
      SplInfo("dict", None, TRUE),
      SplInfo("dict", "", TRUE),
      SplInfo("dict", "abc", TRUE),
      SplInfo("str", None, TRUE) }

\* not spl_info: None and the empty dict
NotSplInfo(spl_info) ==
    \/ spl_info.kind = "None"
    \/ spl_info.kind = "dict" /\ spl_info.setid = None /\ ~spl_info.other

\* the text of a response, and the sections that the parser finds in it
Xml(text, sections) == [isNone |-> FALSE, sections |-> sections, empty |-> text = ""]

XmlContents ==
    { NoXml,
      Xml("", <<>>),
      Xml("<document/>", <<>>),
      Xml("<document>...</document>",
          <<Section(IndicationCode, NoTitle,
                    Body(<<Paragraph("A"), Paragraph("B")>>))>>) }

\* the value of the returned dict made of what an extractor method returns
ValueOf(extracted) ==
    [value |-> extracted.value, fragments |-> extracted.fragments,
     text |-> extracted.text]

\* the dict that get_drug_indications returns
DrugIndications(drug_name, set_id, indication, directions, error) ==
    [outcome |-> "return", drug |-> drug_name, set_id |-> set_id,
     indication |-> indication, directions |-> directions, error |-> error]

\* the message that starts the error of the except clause
ProcessingError == "Processing error: "

\* the test of set_id left out
AfterSplInfo_NoSetIdTest(drug_name, spl_info) ==
    IF NotSplInfo(spl_info)
    THEN [next |-> "return", raised |-> FALSE, set_id |-> None,
          result |-> DrugIndications(drug_name, None, NoValue, NoValue,
                                     "No SPL information found")]
    ELSE IF spl_info.kind # "dict"
    THEN [next |-> "return", raised |-> TRUE, set_id |-> None,
          result |-> DrugIndications(drug_name, None, NoValue, NoValue,
                        ProcessingError \o "'str' object has no attribute 'get'")]
    ELSE [next |-> "get_spl_details", raised |-> FALSE,
          set_id |-> spl_info.setid, result |-> NoDrugIndications]

\* get_drug_indications from the return of get_spl_info to the call of
\* get_spl_details: spl_info.get on something that is not a dict raises
\* AttributeError, which the except clause turns into a result
AfterSplInfo(drug_name, spl_info) ==
    IF NotSplInfo(spl_info)
    THEN [next |-> "return", raised |-> FALSE, set_id |-> None,
          result |-> DrugIndications(drug_name, None, NoValue, NoValue,
                                     "No SPL information found")]
    ELSE IF spl_info.kind # "dict"
    THEN [next |-> "return", raised |-> TRUE, set_id |-> None,
          result |-> DrugIndications(drug_name, None, NoValue, NoValue,
                        ProcessingError \o "'str' object has no attribute 'get'")]
    ELSE IF spl_info.setid = None \/ spl_info.setid = ""
    THEN [next |-> "return", raised |-> FALSE, set_id |-> None,
          result |-> DrugIndications(drug_name, None, NoValue, NoValue,
                                     "No SetID found")]
    ELSE [next |-> "get_spl_details", raised |-> FALSE,
          set_id |-> spl_info.setid, result |-> NoDrugIndications]

\* get_drug_indications from the return of get_spl_details on
AfterSplDetails(drug_name, set_id, xml_content) ==
    IF xml_content.isNone \/ xml_content.empty
    THEN [extracted |-> FALSE,
          result |-> DrugIndications(drug_name, set_id, NoValue, NoValue,
                                     "No XML content found")]
    ELSE [extracted |-> TRUE,
          result |-> DrugIndications(drug_name, set_id,
                                     ValueOf(extract_indication(xml_content)),
                                     ValueOf(extract_directions(xml_content)),
                                     None)]

\* Call i starts: async with self.service runs __aenter__, and
\* get_spl_info makes its request on self.session and waits for the
\* response.
Start(i) ==
    /\ tasks[i].pc = "idle"
    /\ \E drug_name \in DrugNames :
          tasks' = [tasks EXCEPT ![i] =
                        [NoTask EXCEPT !.pc = "get_spl_info", !.drug = drug_name,
                                       !.request = i]]
    /\ service' = aenter(service, i)
    /\ sessions' = [sessions EXCEPT ![i] = "open"]
    /\ UNCHANGED <<mapperVars, hashSeed, call, repeat, extraction, routeVars, loaderVars>>

\* get_spl_info returns in call i.  The call goes on to the next await: it
\* returns a result, through __aexit__, or get_spl_details makes its request
\* on self.session as it is now.  On a closed session the request raises
\* RuntimeError at once, get_spl_details returns None, and the call returns.
SplInfoReturns(i) ==
    /\ tasks[i].pc = "get_spl_info"
    /\ \E spl_info \in SplInfos :
          LET t == [tasks[i] EXCEPT !.spl_info = spl_info, !.looked = TRUE]
              after == AfterSplInfo(t.drug, spl_info)
              fetching == [t EXCEPT !.set_id = after.set_id, !.fetched = TRUE]
          IN IF after.next = "return"
             THEN /\ tasks' = [tasks EXCEPT ![i] =
                                  [t EXCEPT !.pc = "done", !.request = NoSession,
                                            !.raised = after.raised,
                                            !.ret = after.result]]
                  /\ sessions' = aexit(service, sessions)
             ELSE IF sessions[service.session] = "closed"
             THEN /\ tasks' = [tasks EXCEPT ![i] =
                                  [fetching EXCEPT
                                      !.pc = "done", !.request = NoSession,
                                      !.ret = AfterSplDetails(t.drug, after.set_id,
                                                              NoXml).result]]
                  /\ sessions' = aexit(service, sessions)
             ELSE /\ tasks' = [tasks EXCEPT ![i] =
                                  [fetching EXCEPT !.pc = "get_spl_details",
                                                   !.request = service.session]]
                  /\ UNCHANGED sessions
    /\ UNCHANGED <<mapperVars, hashSeed, call, repeat, extraction, routeVars, loaderVars, service>>

\* get_spl_details returns in call i, and the call returns its result
\* through __aexit__.
SplDetailsReturns(i) ==
    /\ tasks[i].pc = "get_spl_details"
    /\ \E xml_content \in XmlContents :
          LET after == AfterSplDetails(tasks[i].drug, tasks[i].set_id, xml_content)
          IN tasks' = [tasks EXCEPT ![i] =
                          [@ EXCEPT !.pc = "done", !.request = NoSession,
                                    !.xml_content = xml_content,
                                    !.extracted = after.extracted,
                                    !.ret = after.result]]
    /\ sessions' = aexit(service, sessions)
    /\ UNCHANGED <<mapperVars, hashSeed, call, repeat, extraction, routeVars, loaderVars, service>>

GetDrugIndications == \E i \in Callers : Start(i) \/ SplInfoReturns(i) \/ SplDetailsReturns(i)

(***************************************************************************)
(* icd10_data_loader.py: load_icd10_codes_from_csv                         *)
(***************************************************************************)
\* Commit in batches of 100
BatchSize == 100

\* the rows of the CSV that are committed when the loop fails at row
\* failed_at: the batches completed before that row; the rollback drops the
\* rows added since
CommittedBefore(failed_at) == ((failed_at - 1) \div BatchSize) * BatchSize

\* the count test left out
load_icd10_codes_from_csv_Reload(existing_codes, csv_rows, failed_at) ==
    IF failed_at = 0
    THEN [outcome |-> "return", rows |-> existing_codes + csv_rows]
    ELSE [outcome |-> "raise", rows |-> existing_codes + CommittedBefore(failed_at)]

\* The function on a table of existing_codes rows and a CSV of csv_rows
\* rows, with an exception at row failed_at of the loop (0: none): the
\* outcome and the rows of the table afterwards.
load_icd10_codes_from_csv(existing_codes, csv_rows, failed_at) ==
    IF existing_codes > 0
    THEN [outcome |-> "return", rows |-> existing_codes]
    ELSE IF failed_at = 0
    THEN [outcome |-> "return", rows |-> csv_rows]
    ELSE [outcome |-> "raise", rows |-> CommittedBefore(failed_at)]

\* A call with the CSV file of the calls before it.
LoadIcd10CodesFromCsv ==
    /\ \E csv_rows \in (IF loader.outcome = "none" THEN 0..MaxCsvRows
                        ELSE {loader.csv_rows}),
          failed_at \in 0..MaxCsvRows :
          /\ failed_at <= csv_rows
          /\ LET r == load_icd10_codes_from_csv(table, csv_rows, failed_at)
             IN /\ table' = r.rows
                /\ loader' = [outcome |-> r.outcome, csv_rows |-> csv_rows]
    /\ UNCHANGED <<mapperVars, hashSeed, call, repeat, extraction, routeVars, ioVars>>

Next ==
    \/ GetMatchesAboveThreshold
    \/ FindBestMatch
    \/ MapIndication
    \/ PreprocessText
    \/ GetSynonyms
    \/ CallAgain
    \/ Forget
    \/ Restart

Spec == Init /\ [][Next]_vars

\* The extractor alone: a mapper on the first catalog that is never called.
InitExtract ==
    /\ LET df == CHOOSE d \in Catalogs : Len(d) = 4
       IN /\ MapperInit(df)
          /\ mapper = MapperRef(Available(df), ICD10Mapper_init(Available(df)))
    /\ hashSeed = 0
    /\ call = NoCall
    /\ repeat = NoReturn
    /\ extraction = NoExtraction
    /\ constructions = 1
    /\ response = NoResponse
    /\ InitIo

NextExtract == ExtractIndication \/ ExtractDirections \/ ForgetExtraction

SpecExtract == InitExtract /\ [][NextExtract]_vars

\* The shared processor alone, with up to MaxCallers requests under way.
SpecProcessor == InitExtract /\ [][GetDrugIndications]_vars

\* The loader alone, called again and again with one CSV file.
SpecLoader == InitExtract /\ [][LoadIcd10CodesFromCsv]_vars

\* The rendered-HTML extraction alone.
NextHtml == ExtractIndicationsSection \/ ForgetExtraction

SpecHtml == InitExtract /\ [][NextHtml]_vars

\* The endpoint and the mapper of the process, from the start of the
\* process: no mapper yet, no request yet.
InitRoutes ==
    /\ icd10_df = NoSelf.icd10_df
    /\ vectorizer = NoSelf.vectorizer
    /\ description_vectors = NoSelf.description_vectors
    /\ synonym_lookup = NoSelf.synonym_lookup
    /\ mapper = NoMapper
    /\ constructions = 0
    /\ response = NoResponse
    /\ InitIo
    /\ hashSeed = 0
    /\ call = NoCall
    /\ repeat = NoReturn
    /\ extraction = NoExtraction

NextRoutes ==
    \/ Construct
    \/ GetDrugIndicationMappings
    \/ MapIndication
    \/ Forget

SpecRoutes == InitRoutes /\ [][NextRoutes]_vars

(***************************************************************************)
(* Properties of get_icd10_matches_above_threshold                         *)
(***************************************************************************)
IsGetMatches == call.op = "get_icd10_matches_above_threshold"

\* the answers to the recorded call that are in the state
Answers == {call.ret} \cup (IF repeat.outcome = "none" THEN {} ELSE {repeat})

\* the catalog indices whose score in answer r clears the call's threshold
Clearing(r) == {i \in DOMAIN r.scores : r.scores[i] >= call.threshold}

\* C1: every entry of the list returned by
\* get_icd10_matches_above_threshold has a confidence_score that is at
\* least the threshold.
C1_ScoresClearThreshold ==
    IsGetMatches =>
        \A r \in Answers : \A k \in DOMAIN r.matches :
            r.matches[k].confidence_score >= call.threshold

\* a call that returned a match while another entry scored below the threshold
C1_Witness ==
    /\ IsGetMatches
    /\ Len(call.ret.matches) >= 1
    /\ \E i \in DOMAIN call.ret.scores : call.ret.scores[i] < call.threshold

\* C2: for max_matches >= 0 the returned list has at most max_matches
\* entries, however many catalog entries clear the threshold.
C2_AtMostMaxMatches ==
    (IsGetMatches /\ call.max_matches >= 0) =>
        \A r \in Answers : Len(r.matches) <= call.max_matches

\* a call where more entries cleared the threshold than max_matches allows
C2_Witness ==
    /\ IsGetMatches
    /\ call.max_matches >= 1
    /\ Cardinality(Clearing(call.ret)) > call.max_matches
    /\ Len(call.ret.matches) = call.max_matches

C4_Deterministic ==
    (IsGetMatches /\ repeat.outcome # "none") => repeat.matches = call.ret.matches

\* C5: when no catalog entry's score clears the threshold,
\* get_icd10_matches_above_threshold returns the empty list: it does not
\* raise and it does not return None.
C5_NoMatchIsEmptyList ==
    IsGetMatches =>
        \A r \in Answers :
            Clearing(r) = {} =>
                r.outcome = "return" /\ r.value = "list" /\ r.matches = <<>>

\* a call on a text that was scored, with every score below the threshold
C5_Witness ==
    /\ IsGetMatches
    /\ ~call.ret.error
    /\ \E i \in DOMAIN call.ret.scores : call.ret.scores[i] > 0
    /\ Clearing(call.ret) = {}
    /\ call.ret.value = "list"

\* C6: find_best_icd10_match at its default threshold and map_indication
\* report that no catalog entry clears the threshold by returning an empty
\* result: they do not raise and do not return None.
C6_NoMappingIsEmptyResult ==
    ( /\ \/ call.op = "map_indication"
         \/ call.op = "find_best_icd10_match" /\ call.threshold = DefaultThreshold
      /\ ~call.ret.error
      /\ Clearing(call.ret) = {} )
    => (call.ret.outcome = "return" /\ call.ret.value # "None")

\* C7: an exception thrown inside the matching computation reaches the
\* caller of get_icd10_matches_above_threshold or find_best_icd10_match as
\* an exception.
C7_ErrorsPropagate ==
    ( /\ call.op \in {"get_icd10_matches_above_threshold", "find_best_icd10_match"}
      /\ call.ret.error )
    => call.ret.outcome = "raise"

\* the catalog index of a returned entry (catalog codes are unique)
IndexOf(m) == CHOOSE i \in DOMAIN icd10_df : icd10_df[i].code = m.icd10_code

\* C8: the returned list is a leading part of a score-descending ordering
\* of the catalog entries that clear the threshold: its entries are
\* distinct catalog entries with their scores, none scores below another
\* that follows it, no entry that clears the threshold is left out while a
\* returned one scores strictly less, and for max_matches >= 0 it has
\* min(max_matches, number of clearing entries) entries.
C8_TopOfDescendingOrder ==
    IsGetMatches =>
        \A r \in Answers :
            ~r.error =>
                LET m == r.matches
                    taken == {IndexOf(m[k]) : k \in DOMAIN m}
                IN /\ \A k \in DOMAIN m :
                        /\ m[k].icd10_code \in {icd10_df[i].code : i \in Clearing(r)}
                        /\ m[k] = MatchDict(Self, r.scores, IndexOf(m[k]))
                   /\ Cardinality(taken) = Len(m)
                   /\ \A k \in 1..(Len(m) - 1) :
                        m[k].confidence_score >= m[k + 1].confidence_score
                   /\ \A i \in Clearing(r) \ taken : \A k \in DOMAIN m :
                        r.scores[i] <= m[k].confidence_score
                   /\ call.max_matches >= 0 =>
                        Len(m) = Min(call.max_matches, Cardinality(Clearing(r)))

\* a call that left out an entry clearing the threshold, which scores
\* strictly less than the entries returned
C8_Witness ==
    /\ IsGetMatches
    /\ call.max_matches >= 1
    /\ Len(call.ret.matches) = call.max_matches
    /\ \E i \in Clearing(call.ret) :
          /\ \A k \in DOMAIN call.ret.matches :
                call.ret.scores[i] < call.ret.matches[k].confidence_score
          /\ call.ret.scores[i] > 0

(***************************************************************************)
(* Properties of the section extractor                                     *)
(***************************************************************************)
\* the first position of x in xs
FirstAt(xs, x) == CHOOSE i \in DOMAIN xs : xs[i] = x /\ \A j \in 1..(i - 1) : xs[j] # x

\* C9: the list returned by extract_indication holds no fragment twice,
\* holds exactly the fragments that were accumulated, and holds them in the
\* order of their first occurrence in the accumulated sequence.
C9_UniqueInFirstOccurrenceOrder ==
    (extraction.op = "extract_indication" /\ extraction.ret.value = "list") =>
        LET out == extraction.ret.fragments
            acc == extraction.ret.accumulated
        IN /\ \A i, j \in DOMAIN out : out[i] = out[j] => i = j
           /\ Range(out) = Range(acc)
           /\ \A i, j \in DOMAIN out :
                i < j => FirstAt(acc, out[i]) < FirstAt(acc, out[j])

\* an extraction whose accumulated fragments repeat one that is followed
\* by another fragment
C9_Witness ==
    /\ extraction.op = "extract_indication"
    /\ Len(extraction.ret.fragments) >= 2
    /\ Len(extraction.ret.accumulated) > Len(extraction.ret.fragments)
    /\ \E i, j, k \in DOMAIN extraction.ret.accumulated :
          /\ i < j /\ j < k
          /\ extraction.ret.accumulated[i] = extraction.ret.accumulated[k]
          /\ extraction.ret.accumulated[i] # extraction.ret.accumulated[j]

\* the canonical code of the section kind an extractor call asks for
CodeOf(op) == IF op = "extract_indication" THEN IndicationCode ELSE DirectionCode

\* C10: in extract_indication and extract_directions every section that
\* carries the canonical code is taken by the code branch, and the title
\* of such a section is never tested against the keywords.
C10_CodeMatchSkipsTitle ==
    (extraction.op # "none" /\ ~extraction.ret.error) =>
        LET ss == extraction.document.sections
        IN /\ extraction.ret.byCode =
                {i \in DOMAIN ss : ss[i].code = CodeOf(extraction.op)}
           /\ extraction.ret.byCode \cap extraction.ret.titleTested = {}

\* an extract_indication call on a section that carries the code, a title
\* equal to a keyword and a text
C10_Witness ==
    /\ extraction.op = "extract_indication"
    /\ \E i \in DOMAIN extraction.document.sections :
          LET sec == extraction.document.sections[i]
          IN /\ sec.code = IndicationCode
             /\ sec.title.present /\ IndicationTitle(sec.title)
             /\ sec.text.present
             /\ i \in extraction.ret.byCode
    /\ extraction.ret.fragments # <<>>

\* a section the call selects: it carries the canonical code of the kind,
\* or it carries no such code and its title passes the title test
Selected(op, sec) ==
    \/ sec.code = CodeOf(op)
    \/ /\ sec.title.present
       /\ IF op = "extract_indication" THEN IndicationTitle(sec.title)
          ELSE DirectionTitle(sec.title)

\* C11: extract_indication and extract_directions never raise: every call
\* returns a list, a string or None, and when the parser throws or no
\* section is selected the result is None, the empty list or the empty
\* string.
C11_NeverRaises ==
    extraction.op # "none" =>
        LET r == extraction.ret
            ss == extraction.document.sections
        IN /\ r.outcome = "return"
           /\ r.value \in {"list", "str", "None"}
           /\ r.error => r.value = "None"
           /\ (r.error \/ \A i \in DOMAIN ss : ~Selected(extraction.op, ss[i]))
                => (r.fragments = <<>> /\ r.text = "")

\* an extract_directions call whose markup made the parser throw
C11_Witness ==
    /\ extraction.op = "extract_directions"
    /\ extraction.document = NoDocument
    /\ extraction.ret.error
    /\ extraction.ret.value = "None"

\* C12: for every section taken by the canonical code of the kind, the
\* result of extract_indication and of extract_directions holds all of the
\* section's text: every paragraph text, every list item, every table row
\* (its non-empty cells joined by " - ", a row without one left out) and
\* the direct text of the section.
C12_AllTextOfCodeSection ==
    (extraction.op # "none" /\ ~extraction.ret.error) =>
        LET ss == extraction.document.sections
            out == Range(extraction.ret.fragments)
        IN \A i \in DOMAIN ss :
              (ss[i].code = CodeOf(extraction.op) /\ ss[i].text.present) =>
                  LET c == ss[i].text.children
                  IN /\ Range(ParagraphTexts(c)) \subseteq out
                     /\ \A t \in Range(ItemTexts(c)) :
                           t \in out \/ (BulletMarker \o t) \in out
                     /\ Range(TableTexts(c)) \subseteq out
                     /\ get_text_content(c) # "" => get_text_content(c) \in out

\* the title text of a section as the title test reads it
TitleText(sec) == LowerStr(Strip(sec.title.text))

\* C13: extract_indication takes a section that does not carry the code
\* by its title if and only if the section has a title whose text,
\* stripped and lowercased, equals a lowercased indication keyword; a
\* title that only contains a keyword does not select the section.
C13_IndicationTitleIsEquality ==
    (extraction.op = "extract_indication" /\ ~extraction.ret.error) =>
        LET ss == extraction.document.sections
        IN extraction.ret.byTitle =
              {i \in DOMAIN ss :
                  /\ ss[i].code # IndicationCode
                  /\ ss[i].title.present
                  /\ TitleText(ss[i]) \in Range(IndicationKeywordsLower)}

\* an extract_indication call that took a section titled with a keyword in
\* another case and left out a section whose title contains a keyword
C13_Witness ==
    /\ extraction.op = "extract_indication"
    /\ \E i, j \in DOMAIN extraction.document.sections :
          LET si == extraction.document.sections[i]
              sj == extraction.document.sections[j]
          IN /\ si.code = "none" /\ si.title.present /\ si.text.present
             /\ si.title.text \notin Range(INDICATION_KEYWORDS)
             /\ i \in extraction.ret.byTitle
             /\ sj.code = "none" /\ sj.title.present /\ sj.text.present
             /\ \E k \in DOMAIN INDICATION_KEYWORDS :
                   Contains(TitleText(sj), IndicationKeywordsLower[k])
             /\ j \notin extraction.ret.byTitle
    /\ extraction.ret.fragments # <<>>

\* C14: extract_directions takes a section that does not carry the code
\* by its title if and only if the section has a title and some direction
\* keyword, lowercased, is a substring of the title text, lowercased.
C14_DirectionTitleIsContainment ==
    (extraction.op = "extract_directions" /\ ~extraction.ret.error) =>
        LET ss == extraction.document.sections
        IN extraction.ret.byTitle =
              {i \in DOMAIN ss :
                  /\ ss[i].code # DirectionCode
                  /\ ss[i].title.present
                  /\ \E k \in DOMAIN DIRECTION_KEYWORDS :
                        Contains(TitleText(ss[i]), DirectionKeywordsLower[k])}

\* an extract_directions call that took a section whose title contains a
\* keyword without being one, and left out a section titled otherwise
C14_Witness ==
    /\ extraction.op = "extract_directions"
    /\ \E i, j \in DOMAIN extraction.document.sections :
          LET si == extraction.document.sections[i]
              sj == extraction.document.sections[j]
          IN /\ si.code = "none" /\ si.title.present /\ si.text.present
             /\ TitleText(si) \notin Range(DirectionKeywordsLower)
             /\ i \in extraction.ret.byTitle
             /\ sj.code = "none" /\ sj.title.present /\ sj.text.present
             /\ j \notin extraction.ret.byTitle
    /\ extraction.ret.fragments # <<>>

\* a fragment that starts with the bullet marker
HasBullet(f) == Len(f) >= Len(BulletMarker) /\ SubSeq(f, 1, Len(BulletMarker)) = BulletMarker

RECURSIVE ChildTexts(_, _)
ChildTexts(op, children) ==
    IF children = <<>> THEN <<>>
    ELSE LET child == Head(children)
         IN (CASE child.kind = "paragraph" -> ParagraphTexts(<<child>>)
               [] child.kind = "list" ->
                    IF op = "extract_directions" THEN Bullet(ItemTexts(<<child>>))
                    ELSE ItemTexts(<<child>>)
               [] child.kind = "table" -> TableTexts(<<child>>)
               [] OTHER -> <<>>)
            \o ChildTexts(op, Tail(children))

\* the same over the selected sections of a document, in their order
RECURSIVE DocumentTexts(_, _)
DocumentTexts(op, sections) ==
    IF sections = <<>> THEN <<>>
    ELSE (IF Selected(op, Head(sections)) /\ Head(sections).text.present
          THEN ChildTexts(op, Head(sections).text.children) ELSE <<>>)
         \o DocumentTexts(op, Tail(sections))

\* C16: the fragments of the result are in document order: of two
\* fragments of the result that are texts of paragraphs, list items or
\* table rows of the selected sections, the one whose first occurrence
\* comes earlier in the document comes earlier in the result.
C16_DocumentOrder ==
    (extraction.op # "none" /\ ~extraction.ret.error) =>
        LET out == extraction.ret.fragments
            doc == DocumentTexts(extraction.op, extraction.document.sections)
        IN \A i, j \in DOMAIN out :
              (i < j /\ out[i] \in Range(doc) /\ out[j] \in Range(doc))
                  => FirstAt(doc, out[i]) < FirstAt(doc, out[j])

(***************************************************************************)
(* Properties of the mapper's state                                        *)
(***************************************************************************)
\* C19: after construction no call of preprocess_text, get_synonyms,
\* find_best_icd10_match, get_icd10_matches_above_threshold or
\* map_indication, made in any order and any number of times, changes the
\* catalog table, the fitted vectorizer, the description vectors or the
\* synonym lookup; no key is added to the lookup.
C19_ReadOnlyAfterConstruction == [][UNCHANGED mapperVars]_vars

\* a get_synonyms call, made twice, that read the lookup at a term and
\* handed back its synonyms
C19_Witness ==
    /\ call.op = "get_synonyms"
    /\ repeat.outcome = "return"
    /\ HYPERTENSION \in LookedUpTerms(Self, call.indication.tokens)
    /\ HIGH_BP \in call.ret.matches

\* C20: the synonym lookup is symmetric and closed over each cluster: for
\* every term of MEDICAL_SYNONYMS and every two distinct members A and B
\* of its cluster (the term and its synonyms), B is in synonym_lookup[A],
\* and so A is in synonym_lookup[B].
C20_LookupSymmetric ==
    \A t \in DOMAIN MEDICAL_SYNONYMS :
        LET cluster == {t} \cup MEDICAL_SYNONYMS[t]
        IN \A A, B \in cluster :
              A # B => (A \in DOMAIN synonym_lookup /\ B \in synonym_lookup[A])

\* a constructed mapper whose lookup ties two synonyms of one term, and a
\* term listed among its own synonyms with its other synonym
C20_Witness ==
    /\ ELEVATED_BP \in synonym_lookup[HIGH_BP]
    /\ HIGH_BP \in synonym_lookup[ELEVATED_BP]
    /\ EDEMA \in synonym_lookup[SWELLING]
    /\ SWELLING \in synonym_lookup[EDEMA]
    /\ call.op # "none"

(***************************************************************************)
(* Properties of the construction of the mapper                            *)
(***************************************************************************)
\* C17: the ICD10Mapper is constructed at most once in a process, however
\* many requests the indication-mapping endpoint serves.
C17_ConstructedAtMostOnce == constructions <= 1

\* a table on which the catalog cannot be loaded or the vector space
\* cannot be fitted: the query fails, there are no rows, or no description
\* holds a word of the vocabulary
Unusable(store) ==
    \/ ~store.available
    \/ store.rows = <<>>
    \/ \A i \in DOMAIN store.rows : Analyze(store.rows[i].description) = <<>>

\* C18: a construction of ICD10Mapper on a table that cannot be loaded or
\* fitted ends in an exception and hands no object to the caller, in the
\* process and in the endpoint; every call that a mapper has served was
\* served by a mapper whose construction returned, on a usable table.
C18_FailedConstructionServesNothing ==
    /\ (mapper.init # "none" /\ Unusable(mapper.store))
          => (mapper.init = "raise" /\ ~mapper.held)
    /\ (response.reached /\ Unusable(response.store))
          => (response.init = "raise" /\ ~response.served /\ response.status = 500)
    /\ call.op # "none"
          => (mapper.held /\ mapper.init = "return" /\ ~Unusable(mapper.store))

\* a process whose construction failed on a table of stop words, and a
\* request whose construction failed on a table that cannot be read
C18_Witness ==
    /\ mapper.init = "raise"
    /\ mapper.store = Available(StopWordRows)
    /\ response.reached
    /\ response.store = Unavailable
    /\ response.init = "raise"

(***************************************************************************)
(* Properties of get_synonyms                                              *)
(***************************************************************************)
\* the similarity of the text of the recorded get_synonyms call to key k
KeyScore(k) == Similarity(LowerText(call.indication.tokens), k)

\* the recorded call is a get_synonyms call that compared its text with
\* the keys
Expanded ==
    /\ call.op = "get_synonyms"
    /\ call.ret.outcome = "return"
    /\ VectorNorm(LowerText(call.indication.tokens)) # 0

\* C21 as claimed: get_synonyms unions in the lookup entry of every key
\* whose similarity to the text is at least 0.8, a key scoring exactly 0.8
\* included, and keys scoring less contribute nothing.
C21_AtLeastThreshold ==
    Expanded =>
        call.ret.matches =
            UNION {synonym_lookup[k] :
                     k \in {j \in DOMAIN synonym_lookup :
                              KeyScore(j) >= SynonymSimilarity}}

\* C21 amended: get_synonyms unions in the lookup entry of every key
\* whose similarity to the text is strictly greater than 0.8; a key
\* scoring exactly 0.8 or less contributes nothing.
C21_AboveThreshold ==
    Expanded =>
        /\ \A k \in DOMAIN synonym_lookup :
              KeyScore(k) > SynonymSimilarity
                  => synonym_lookup[k] \subseteq call.ret.matches
        /\ \A p \in call.ret.matches :
              \E k \in DOMAIN synonym_lookup :
                  KeyScore(k) > SynonymSimilarity /\ p \in synonym_lookup[k]

\* a get_synonyms call on a text that scores exactly 0.8 against a key,
\* whose entry is not in the returned set
C21_Witness ==
    /\ Expanded
    /\ \E k \in DOMAIN synonym_lookup :
          /\ KeyScore(k) = SynonymSimilarity
          /\ synonym_lookup[k] # {}
          /\ synonym_lookup[k] \cap call.ret.matches = {}

\* C22: get_synonyms on a term of MEDICAL_SYNONYMS, in any case, returns
\* a set that holds every other member of the term's cluster;
\* get_synonyms("hypertension") holds "high blood pressure".
C22_TermExpandsToCluster ==
    (call.op = "get_synonyms" /\ call.ret.outcome = "return") =>
        \A t \in DOMAIN MEDICAL_SYNONYMS :
            (\A i \in DOMAIN t :
                /\ Len(call.indication.tokens) = Len(t)
                /\ Lower(call.indication.tokens[i]) = t[i])
            => /\ (MEDICAL_SYNONYMS[t] \ {t}) \subseteq call.ret.matches
               /\ t = HYPERTENSION => HIGH_BP \in call.ret.matches

\* get_synonyms("Hypertension") handing back "high blood pressure"
C22_Witness ==
    /\ call.op = "get_synonyms"
    /\ call.indication.tokens = <<"Hypertension">>
    /\ call.ret.outcome = "return"
    /\ HIGH_BP \in call.ret.matches
    /\ ELEVATED_BP \in call.ret.matches

\* a call of find_best_icd10_match on a string that has returned
BestAsked ==
    /\ call.op = "find_best_icd10_match"
    /\ call.ret.outcome = "return"
    /\ ~call.indication.isNone

\* the largest score of the call over the whole catalog
BestScore == call.ret.scores[ArgMax(call.ret.scores)]

\* code, description, category and score of catalog entry i
EntryTuple(i) ==
    <<icd10_df[i].code, icd10_df[i].description, icd10_df[i].category,
      call.ret.scores[i]>>

\* C25 as claimed: find_best_icd10_match returns code, description,
\* category and score of an entry of maximal score when that score is at
\* least the threshold, the no-match value (None, None, 0.0) when it is
\* below, and the value has the same number of components in both outcomes.
C25_UniformBestMatch ==
    BestAsked =>
        /\ BestScore >= call.threshold =>
              \E i \in DOMAIN icd10_df :
                  /\ call.ret.scores[i] = BestScore
                  /\ call.ret.matches = EntryTuple(i)
        /\ BestScore < call.threshold => call.ret.matches = NoBestMatch
        /\ Len(call.ret.matches) = Len(EntryTuple(ArgMax(call.ret.scores)))

\* get_icd10_matches_above_threshold on the arguments of the call, with
\* max_matches = 1
SingleMatch ==
    get_icd10_matches_above_threshold(Self, call.seed, call.indication,
                                      call.threshold, 1).matches

\* C30 as claimed: find_best_icd10_match reports a match exactly when
\* get_icd10_matches_above_threshold with the same threshold and
\* max_matches = 1 returns one result, and then both report the same code
\* and the same score, also when several entries tie for the highest score.
C30_CallShapesAgree ==
    BestAsked =>
        /\ call.ret.matches # NoBestMatch <=> Len(SingleMatch) = 1
        /\ call.ret.matches # NoBestMatch =>
              /\ SingleMatch[1].icd10_code = call.ret.matches[1]
              /\ SingleMatch[1].confidence_score = call.ret.matches[4]

(***************************************************************************)
(* Properties of GET /drugs/{drug_name}/indications                        *)
(***************************************************************************)
\* a request has been answered
Answered == response.status # 0

\* C26 as claimed: whenever the processor's result carries an error, the
\* client receives a 404 (the HTTPException raised inside the handler is not
\* turned into a 500 by the handler's except Exception clause).
C26_ErrorIs404 ==
    (Answered /\ response.error # None) => response.status = 404

\* what map_indication of a mapper built on the request's table returns for
\* the indication of the processor's result
MappedIndication ==
    map_indication(ICD10Mapper_init(response.store).self, hashSeed,
                   Text(response.indication))

\* C27 as claimed: whenever the processor's result has error None and the
\* mapper finds at least one match for the extracted indication, the handler
\* responds successfully (with the drug name, the original text and the
\* matches by descending confidence_score).
C27_MatchesAreServed ==
    ( /\ Answered
      /\ response.error = None
      /\ response.init = "return"
      /\ MappedIndication.value = "dict" )
    => (response.served /\ response.status = 200)

(***************************************************************************)
(* Properties of PDFService.extract_indications_section                    *)
(***************************************************************************)
HtmlAsked == extraction.op = "extract_indications_section"

\* fragment t holds the section title, whatever its case
EchoesTitle(t) == Contains(LowerStr(t), SectionTitle)

\* the positions of extracted_indications that hold a fragment without the
\* title for the first time
Remaining ==
    LET acc == extraction.ret.accumulated
    IN {i \in DOMAIN acc :
          ~EchoesTitle(acc[i]) /\ \A j \in 1..(i - 1) : acc[j] # acc[i]}

\* C23: extract_indications_section never raises; a list it returns has no
\* fragment that contains "indications and usage" in any case, has no
\* fragment twice, and holds the remaining fragments in the order of their
\* first occurrence; it returns None when the marked container is absent
\* and when no fragment remains.
C23_CleanOrderedFragments ==
    HtmlAsked =>
        LET ret == extraction.ret
            acc == ret.accumulated
        IN /\ ret.outcome = "return"
           /\ ret.value \in {"list", "None"}
           /\ ret.value = "list" =>
                 /\ \A k \in DOMAIN ret.fragments : ~EchoesTitle(ret.fragments[k])
                 /\ \A k, l \in DOMAIN ret.fragments :
                       ret.fragments[k] = ret.fragments[l] => k = l
                 /\ Len(ret.fragments) = Cardinality(Remaining)
                 /\ \A k \in DOMAIN ret.fragments :
                       \E i \in Remaining :
                           /\ Cardinality({j \in Remaining : j <= i}) = k
                           /\ ret.fragments[k] = acc[i]
           /\ ~extraction.document.marked => ret.value = "None"
           /\ Remaining = {} => ret.value = "None"

\* a page whose fragments hold the title once and one fragment twice, of
\* which two fragments are returned
C23_Witness ==
    /\ HtmlAsked
    /\ extraction.ret.value = "list"
    /\ Len(extraction.ret.fragments) = 2
    /\ \E i \in DOMAIN extraction.ret.accumulated :
          EchoesTitle(extraction.ret.accumulated[i])
    /\ \E i, j \in DOMAIN extraction.ret.accumulated :
          i < j /\ extraction.ret.accumulated[i] = extraction.ret.accumulated[j]

(***************************************************************************)
(* Properties of DailyMedProcessor.get_drug_indications                    *)
(***************************************************************************)
\* the SPL lookup of a call yielded nothing: None, or an empty dict
YieldsNothing(spl_info) ==
    \/ spl_info.kind = "None"
    \/ spl_info.kind = "dict" /\ spl_info.setid = None /\ ~spl_info.other

\* the SPL info is a dict that holds something, but no setid
HasNoSetId(spl_info) ==
    /\ spl_info.kind = "dict"
    /\ ~YieldsNothing(spl_info)
    /\ spl_info.setid \in {None, ""}

Finished(i) == tasks[i].pc = "done"

\* C24: get_drug_indications never raises; its error is "No SPL information
\* found" when the SPL lookup yields nothing, "No SetID found" when the SPL
\* info has no setid, "No XML content found" when the detail fetch yields
\* nothing, and starts with "Processing error: " after an exception; the
\* detail fetch is made only with a setid, the extractions run only on XML
\* that is not empty, and error is None exactly when both extractions ran.
C24_StagedPipeline ==
    \A i \in Callers :
        LET t == tasks[i]
        IN /\ t.fetched => (t.looked /\ t.set_id \notin {None, ""})
           /\ t.extracted =>
                 (t.fetched /\ ~t.xml_content.isNone /\ ~t.xml_content.empty)
           /\ Finished(i) =>
                 /\ t.ret.outcome = "return"
                 /\ t.ret.drug = t.drug
                 /\ YieldsNothing(t.spl_info) =>
                       t.ret.error = "No SPL information found"
                 /\ HasNoSetId(t.spl_info) => t.ret.error = "No SetID found"
                 /\ (t.fetched /\ (t.xml_content.isNone \/ t.xml_content.empty))
                       => t.ret.error = "No XML content found"
                 /\ t.raised =>
                       /\ Len(t.ret.error) > Len(ProcessingError)
                       /\ SubSeq(t.ret.error, 1, Len(ProcessingError)) = ProcessingError
                 /\ t.ret.error = None <=> t.extracted

\* one call has returned fragments without an error, another the error of
\* the except clause
C24_Witness ==
    \E i, j \in Callers :
        /\ Finished(i)
        /\ tasks[i].ret.error = None
        /\ tasks[i].ret.indication.value = "list"
        /\ tasks[i].ret.indication.fragments # <<>>
        /\ tasks[i].ret.directions.value = "str"
        /\ Finished(j)
        /\ tasks[j].raised

\* C28 as claimed: while a call is waiting for one of its fetches, the
\* session it opened and the session its request was made on are open, and
\* once no call is under way no session is left open.
C28_SessionsIsolated ==
    /\ \A i \in Callers :
          tasks[i].pc \in {"get_spl_info", "get_spl_details"} =>
              /\ sessions[i] = "open"
              /\ sessions[tasks[i].request] = "open"
    /\ (\A i \in Callers : tasks[i].pc \in {"idle", "done"}) =>
          \A k \in Callers : sessions[k] # "open"

(***************************************************************************)
(* Properties of load_icd10_codes_from_csv                                 *)
(***************************************************************************)
\* C29 as claimed: whenever load_icd10_codes_from_csv returns without
\* raising, the table holds a row for every row of the CSV, also when an
\* earlier call with the same CSV failed after committing some batches.
C29_ReturnMeansLoaded ==
    loader.outcome = "return" => table = loader.csv_rows

====
